---- MODULE Spec2Model ----
(***************************************************************************)
(* Model of the acquisition pipeline of src/utils.py and src/main.py:      *)
(* the poll path (process_overseerr_request), the push path                *)
(* (jellyseer_webhook) and the commit stage (add_torrent_and_select_files, *)
(* select_files_in_rd).  One behaviour is one pipeline run for one request.*)
(*                                                                         *)
(* Content hashes are opaque strings that the code only compares for       *)
(* equality; they are numbered 1, 2, ... and 0 stands for a missing or     *)
(* empty infoHash.  On the poll path the j-th distinct hash met is named j.*)
(* The streams list returned by discovery is read one element per loop     *)
(* iteration: i counts the streams read, more tells whether the list holds *)
(* further ones.                                                           *)
(*                                                                         *)
(* Further specifications follow that one (Spec): SpecAvail                *)
(* (get_instant_availability on its own), SpecPool and SpecPoolFair        *)
(* (start_processing_queue and the worker threads), SpecSentinel (the pool *)
(* with a None item on the queue), SpecLimit (the @limits decorators) and  *)
(* SpecCalls (the outbound calls and their timeouts).                      *)
(***************************************************************************)
EXTENDS Integers, Sequences, FiniteSets

VARIABLES
    path,             \* "poll": process_overseerr_request, "push": jellyseer_webhook
    media_type,       \* "movie" or "tv"
    pc,               \* position in the pipeline run
    attempt,          \* loop counter of the retry loops (range(5))
    more,             \* torrentio_results['streams'] holds streams the loop has not read
    i,                \* number of streams the for loop has read
    checked_hashes,   \* poll: set of hashes already checked
    garbage_count,    \* poll: garbage counter
    ranked_torrents,  \* poll: list of accepted torrents, in discovery order
    top_torrents,     \* poll: sorted_torrents[:5]
    outcome,          \* how the run ended ("" while running)
    checks,           \* history: availability checks made, in order, with verdicts
    commitLog,        \* history: calls of add_torrent_and_select_files, with results
    acks,             \* history: number of mark_completed calls
    broke,            \* history: the poll loop was left by its break statement
    lastTrakt,        \* history: what the last Trakt request of the resolver met
    lastTorrentio,    \* history: what the last Torrentio request of the discovery met
    av_hashes,        \* get_instant_availability: the hashes asked for
    av_upstream,      \* get_instant_availability: what Real-Debrid answers
    av_results,       \* get_instant_availability: the results of the calls made
    sp,               \* position of start_processing_queue
    fetched,          \* number of requests get_overseerr_media_requests returned
    queue,            \* request_queue: the items not yet dequeued
    unfinished,       \* request_queue.unfinished_tasks, the count join waits on
    threads,          \* number of worker threads started
    wpc,              \* position of each worker thread in process_request_queue
    witem,            \* the item each worker holds
    dequeues,         \* history: per request, number of times it was dequeued
    runs,             \* history: per request, number of pipeline runs that ended
    dones,            \* history: per request, number of task_done calls
    raisedIn,         \* history: requests whose pipeline met an exception
    wcaught,          \* history: workers that ran a pipeline which met an exception
    sentinels,        \* history: number of None items put on request_queue
    rl_pc,            \* the rate-limited function the pipeline run calls next
    rl_checked,       \* number of check_rd_availability calls the run has made
    rl_state,         \* per decorated function: the counter of its @limits
    rl_clock,         \* seconds since the module was imported
    rl_sleeping,      \* the caller sleeps in sleep_and_retry
    rl_wake,          \* the time at which that sleep ends
    rl_window,        \* history: function bodies run in the 60 seconds up to now
    oc_path,          \* outbound calls: "poll" or "push"
    oc_pc,            \* outbound calls: the call the thread makes next
    oc_attempt,       \* outbound calls: loop counter of the retry loops
    oc_checked,       \* outbound calls: availability lookups made
    oc_blocked,       \* outbound calls: the thread waits on a call that cannot end
    oc_timeouts       \* history: calls that ended by their timeout

\* The variables of the pipeline run.
pipeVars == <<path, media_type, pc, attempt, more, i, checked_hashes, garbage_count,
              ranked_torrents, top_torrents, outcome, checks, commitLog, acks, broke,
              lastTrakt, lastTorrentio>>

\* The variables of the other specifications of this module.
availVars == <<av_hashes, av_upstream, av_results>>
poolVars == <<sp, fetched, queue, unfinished, threads, wpc, witem, dequeues, runs, dones,
              raisedIn, wcaught, sentinels>>
limitVars == <<rl_pc, rl_checked, rl_state, rl_clock, rl_sleeping, rl_wake, rl_window>>
callVars == <<oc_path, oc_pc, oc_attempt, oc_checked, oc_blocked, oc_timeouts>>
sideVars == <<availVars, poolVars, limitVars, callVars>>

\* What the actions of one part leave alone.
notAvail == <<pipeVars, poolVars, limitVars, callVars>>
notPool == <<pipeVars, availVars, limitVars, callVars>>
notLimit == <<pipeVars, availVars, poolVars, callVars>>
notCalls == <<pipeVars, availVars, poolVars, limitVars>>

vars == <<pipeVars, sideVars>>

(***************************************************************************)
(* Each specification of this module runs one part of the program; the     *)
(* variables of the other parts rest at these values.                      *)
(***************************************************************************)
PipeAtRest ==
    /\ path = "poll" /\ media_type = "movie" /\ pc = "rest" /\ attempt = 0
    /\ more = FALSE /\ i = 0 /\ checked_hashes = {} /\ garbage_count = 0
    /\ ranked_torrents = <<>> /\ top_torrents = <<>> /\ outcome = ""
    /\ checks = <<>> /\ commitLog = <<>> /\ acks = 0 /\ broke = FALSE
    /\ lastTrakt = "" /\ lastTorrentio = ""

AvailAtRest == av_hashes = {} /\ av_upstream = "" /\ av_results = <<>>

PoolAtRest ==
    /\ sp = "rest" /\ fetched = 0 /\ queue = <<>> /\ unfinished = 0 /\ threads = 0
    /\ wpc = <<>> /\ witem = <<>> /\ dequeues = <<>> /\ runs = <<>> /\ dones = <<>>
    /\ raisedIn = {} /\ wcaught = {} /\ sentinels = 0

LimitAtRest ==
    /\ rl_pc = "rest" /\ rl_checked = 0 /\ rl_state = <<>> /\ rl_clock = 0
    /\ rl_sleeping = FALSE /\ rl_wake = 0 /\ rl_window = 0

CallsAtRest ==
    /\ oc_path = "" /\ oc_pc = "rest" /\ oc_attempt = 0 /\ oc_checked = 0
    /\ oc_blocked = FALSE /\ oc_timeouts = 0

(***************************************************************************)
(* Bounds of the model.                                                    *)
(***************************************************************************)
MaxStreams == 6      \* most streams the poll loop reads
MaxPushStreams == 2  \* most streams the push loop reads
MaxFiles == 2        \* longest file list of a download job
MaxHashes == 2       \* number of distinct hashes asked for or answered at once
MaxAvailCalls == 2   \* calls of get_instant_availability against one upstream state
MaxRequests == 2     \* most requests one poll fetches
MaxSentinels == 1    \* most None items put on the queue
MaxPeriods == 1      \* number of rate-limit periods the clock runs through
MaxLookups == 2      \* most availability lookups of a run of outbound calls

(***************************************************************************)
(* Program constants.                                                      *)
(***************************************************************************)
max_hashes_to_check == 5
TopN == 5
MaxAttempts == 5
PollFileIdx == 1
num_threads == 5
MAX_CALLS_PER_MINUTE == 60
period == 60

Min(a, b) == IF a < b THEN a ELSE b

(***************************************************************************)
(* Python values.  A file index is an int, a str or None.                  *)
(***************************************************************************)
PyInt(n) == [t |-> "int", v |-> n]
PyStr(n) == [t |-> "str", v |-> n]      \* the decimal string of n
PyNone == [t |-> "none", v |-> 0]

MediaTypes == {"movie", "tv"}
\* The ranks rtn.rank gives: a lower and a higher one.
Scores == {1, 2}

(***************************************************************************)
(* Availability Filter.                                                    *)
(* A response of GET /torrents/instantAvailability/{hashes}: status, the   *)
(* JSON shape and, for a mapping, the entry of each hash it holds:         *)
(* "rd" (non-empty "rd" list), "rd_empty" ("rd" present but empty),        *)
(* "no_rd" (no "rd" key).                                                  *)
(***************************************************************************)
EmptyData == [h \in {} |-> "rd"]

AvailResponses(hash) ==
    { [status |-> 200, kind |-> "dict", data |-> [h \in {hash} |-> e]] :
          e \in {"rd", "rd_empty", "no_rd"} }
    \cup { [status |-> 200, kind |-> "dict", data |-> EmptyData],
           [status |-> 200, kind |-> "list", data |-> EmptyData],
           [status |-> 503, kind |-> "dict", data |-> EmptyData],
           [status |-> 0, kind |-> "raise", data |-> EmptyData] }

\* The normalised mapping hash -> record; "rec" is a non-empty record, "empty" is {}.
get_instant_availability(hashes, resp) ==
    IF resp.status # 200 THEN [h \in hashes |-> "empty"]
    ELSE IF resp.kind = "list" THEN [h \in hashes |-> "empty"]
    ELSE [h \in DOMAIN resp.data |->
              IF resp.data[h] = "rd" THEN "rec" ELSE "empty"]

\* check_rd_availability without its test of the record: every hash counts as cached.
check_rd_availability_unchecked(info_hash, resp) == "rec"

\* The record of info_hash, or "none" for None.
check_rd_availability(info_hash, resp) ==
    LET availability == get_instant_availability({info_hash}, resp)
    IN  IF info_hash \in DOMAIN availability
        THEN IF availability[info_hash] # "empty" THEN availability[info_hash] ELSE "none"
        ELSE "none"

(***************************************************************************)
(* Ranking capability rtn.rank: a torrent with fetch and rank, the         *)
(* GarbageTorrent exception, or another exception.                         *)
(***************************************************************************)
RankOutcomes ==
    { [kind |-> "torrent", fetch |-> f, rank |-> s] : f \in BOOLEAN, s \in Scores }
    \cup { [kind |-> "garbage", fetch |-> FALSE, rank |-> 0],
           [kind |-> "error", fetch |-> FALSE, rank |-> 0] }

(***************************************************************************)
(* sorted(ranked_torrents, key=rank, reverse=True): a stable sort, equal   *)
(* ranks keep their order.                                                 *)
(***************************************************************************)
InsertDesc(s, x) ==
    LET before == { p \in 1..Len(s) : s[p].rank >= x.rank }
        k == Cardinality({ p \in 1..Len(s) : \A q \in 1..p : q \in before })
    IN  SubSeq(s, 1, k) \o <<x>> \o SubSeq(s, k + 1, Len(s))

RECURSIVE SortFrom(_, _)
SortFrom(acc, rest) ==
    IF rest = <<>> THEN acc
    ELSE SortFrom(InsertDesc(acc, Head(rest)), Tail(rest))

\* The sort as sorted(...)[::-1] of an ascending sort would do it: equal ranks swap.
InsertDescLast(s, x) ==
    LET k == Cardinality({ p \in 1..Len(s) : s[p].rank > x.rank })
    IN  SubSeq(s, 1, k) \o <<x>> \o SubSeq(s, k + 1, Len(s))

RECURSIVE SortFromLast(_, _)
SortFromLast(acc, rest) ==
    IF rest = <<>> THEN acc
    ELSE SortFromLast(InsertDescLast(acc, Head(rest)), Tail(rest))

sorted_torrents_unstable(ranked) == SortFromLast(<<>>, ranked)

sorted_torrents(ranked) == SortFrom(<<>>, ranked)

(***************************************************************************)
(* Commit stage.                                                           *)
(* A file of a job's listing: its id and what mimetypes.guess_type gives  *)
(* for its path, a video type or no guess ("none").  The service numbers   *)
(* the files of a job 1, 2, ... in listing order.                          *)
(***************************************************************************)
Mimes == {"video", "none"}

FileLists ==
    UNION { { [j \in 1..n |-> [id |-> j, mime |-> m[j]]] : m \in [1..n -> Mimes] } :
            n \in 0..MaxFiles }

\* The answers of the download service to one commit: the magnet submission
\* ("201_id", "201_noid", "other" status, "raise" for a transport exception),
\* the file listing ("200", "other", "raise") with its files, and the selection
\* ("204", "other", "raise").
CommitEnvs ==
    { [submit |-> s, listing |-> "other", files |-> <<>>, select |-> "other"] :
          s \in {"201_noid", "other", "raise"} }
    \cup { [submit |-> "201_id", listing |-> l, files |-> <<>>, select |-> "other"] :
          l \in {"other", "raise"} }
    \cup { [submit |-> "201_id", listing |-> "200", files |-> f, select |-> s] :
          f \in FileLists, s \in {"204", "other", "raise"} }

IsPlayable(file) == file.mime # "none" /\ file.mime = "video"

\* [str(file['id']) for file in files if <video>], in listing order
RECURSIVE playable_files(_)
playable_files(files) ==
    IF files = <<>> THEN <<>>
    ELSE (IF IsPlayable(Head(files)) THEN <<Head(files).id>> ELSE <<>>)
         \o playable_files(Tail(files))

\* file_idx < 0 or file_idx >= len(files), for an int file_idx
IndexOutOfRange(file_idx, files) == file_idx.v < 0 \/ file_idx.v >= Len(files)

\* select_files_in_rd: ret is "True", "False" or "raise"; listed: the file list
\* was fetched with status 200; files: the list the range check read (it reads none
\* when its first comparison raises); sent: the selectFiles POST was made, for
\* the ids `selected`.
SelectResult(ret, exc, listed, files, sent, selected) ==
    [ret |-> ret, exc |-> exc, listed |-> listed, files |-> files,
     sent |-> sent, selected |-> selected]

PostSelection(env, selected) ==
    IF env.select = "raise"
    THEN SelectResult("raise", "RequestException", TRUE, env.files, TRUE, selected)
    ELSE IF env.select = "204"
    THEN SelectResult("True", "", TRUE, env.files, TRUE, selected)
    ELSE SelectResult("False", "", TRUE, env.files, TRUE, selected)

select_files_in_rd(file_idx, mtype, env) ==
    IF env.listing = "raise"
    THEN SelectResult("raise", "RequestException", FALSE, <<>>, FALSE, <<>>)
    ELSE IF env.listing # "200"
    THEN SelectResult("False", "", FALSE, <<>>, FALSE, <<>>)
    ELSE IF file_idx.t # "int"
    THEN \* file_idx < 0 with a str or None: TypeError
         SelectResult("raise", "TypeError", TRUE, <<>>, FALSE, <<>>)
    ELSE IF IndexOutOfRange(file_idx, env.files)
    THEN SelectResult("False", "", TRUE, env.files, FALSE, <<>>)
    ELSE IF mtype = "movie"
    THEN PostSelection(env, <<env.files[file_idx.v + 1].id>>)
    ELSE IF mtype = "tv"
    THEN IF playable_files(env.files) = <<>>
         THEN SelectResult("False", "", TRUE, env.files, FALSE, <<>>)
         ELSE PostSelection(env, playable_files(env.files))
    ELSE SelectResult("False", "", TRUE, env.files, FALSE, <<>>)

\* add_torrent_and_select_files: kind is "dict" (a result with success and message),
\* "none" (returns None) or "raise"; sel is the select_files_in_rd call, if made.
NoSelect == SelectResult("", "", FALSE, <<>>, FALSE, <<>>)

CommitResult(kind, success, message, called, sel) ==
    [kind |-> kind, success |-> success, message |-> message,
     selectCalled |-> called, sel |-> sel]

add_torrent_and_select_files(info_hash, file_idx, mtype, env) ==
    IF env.submit = "raise"
    THEN CommitResult("raise", FALSE, "RequestException", FALSE, NoSelect)
    ELSE IF env.submit = "201_id"
    THEN LET sel == select_files_in_rd(file_idx, mtype, env)
         IN  IF sel.ret = "raise"
             THEN CommitResult("raise", FALSE, sel.exc, TRUE, sel)
             ELSE IF sel.ret = "True"
             THEN CommitResult("dict", TRUE, "Torrent added and files selected.", TRUE, sel)
             ELSE CommitResult("dict", FALSE, "Failed to select files in the torrent.",
                               TRUE, sel)
    ELSE IF env.submit = "201_noid"
    THEN CommitResult("dict", FALSE, "Torrent added, but torrent ID not found.",
                      FALSE, NoSelect)
    ELSE CommitResult("none", FALSE, "", FALSE, NoSelect)

\* The test as `if result:` would do it: any dict counts as success.
ResultSuccessAnyDict(result) ==
    IF result.kind = "dict" THEN "True" ELSE "raise"

\* result.get('success'): "raise" when result is None (AttributeError) or the call
\* raised.
ResultSuccess(result) ==
    IF result.kind = "dict" THEN (IF result.success THEN "True" ELSE "False")
    ELSE "raise"

(***************************************************************************)
(* Identifier Resolver, one attempt of its loop: "id" (returns the IMDb    *)
(* id), "none" (returns None), "retry" (next attempt), "raise".            *)
(***************************************************************************)
TraktResponses == {"200_id", "200_noimdb", "200_empty", "non200", "transport", "error"}

\* A resolver that hands the caller an identifier whatever a 200 answer holds.
get_imdb_id_from_trakt_lenient(att, resp) ==
    IF resp \in {"200_id", "200_noimdb", "200_empty"} THEN "id"
    ELSE IF resp = "non200" THEN "none"
    ELSE IF resp = "transport"
    THEN IF att = MaxAttempts - 1 THEN "none" ELSE "retry"
    ELSE "raise"

\* A resolver that gives up one attempt late.
get_imdb_id_from_trakt_six(att, resp) ==
    IF resp = "200_id" THEN "id"
    ELSE IF resp \in {"200_noimdb", "200_empty", "non200"} THEN "none"
    ELSE IF resp = "transport"
    THEN IF att = MaxAttempts THEN "none" ELSE "retry"
    ELSE "raise"

get_imdb_id_from_trakt(att, resp) ==
    IF resp = "200_id" THEN "id"
    ELSE IF resp \in {"200_noimdb", "200_empty", "non200"} THEN "none"
    ELSE IF resp = "transport"
    THEN IF att = MaxAttempts - 1 THEN "none" ELSE "retry"
    ELSE "raise"

(***************************************************************************)
(* Candidate Discovery, one attempt of its loop: "json" (returns the body),*)
(* "none", "retry", "raise".                                               *)
(***************************************************************************)
TorrentioResponses == {"200_streams", "200_nostreams", "non200", "transport", "error"}

query_torrentio(att, resp) ==
    IF resp \in {"200_streams", "200_nostreams"} THEN "json"
    ELSE IF resp = "non200" THEN "none"
    ELSE IF resp = "transport"
    THEN IF att = MaxAttempts - 1 THEN "none" ELSE "retry"
    ELSE "raise"

(***************************************************************************)
(* State after construction: a request handed to one of the two pipelines. *)
(***************************************************************************)
Init ==
    /\ path \in {"poll", "push"}
    /\ media_type \in MediaTypes
    /\ pc = IF path = "push" THEN "receive" ELSE "resolve"
    /\ attempt = 0
    /\ more = FALSE
    /\ i = 0
    /\ checked_hashes = {}
    /\ garbage_count = 0
    /\ ranked_torrents = <<>>
    /\ top_torrents = <<>>
    /\ outcome = ""
    /\ checks = <<>>
    /\ commitLog = <<>>
    /\ acks = 0
    /\ broke = FALSE
    /\ lastTrakt = "" /\ lastTorrentio = ""
    /\ AvailAtRest /\ PoolAtRest /\ LimitAtRest /\ CallsAtRest

loopVars == <<more, i, checked_hashes, garbage_count, ranked_torrents, top_torrents>>
histVars == <<checks, commitLog, acks, broke>>

\* The run ends with outcome o.
Finish(o) == pc' = "done" /\ outcome' = o

\* The "success" of the dict jellyseer_webhook returns at each of its exits.
ResponseSuccess(o) == o \in {"test_notification", "torrent_added"}

\* A handler that asks the resolver before it validates the payload.
PushReceiveLate ==
    /\ path = "push" /\ pc = "receive"
    /\ \E payload \in {"test", "invalid", "valid"}, resp \in TraktResponses :
          /\ lastTrakt' = resp
          /\ IF payload = "test" THEN Finish("test_notification")
             ELSE IF payload = "invalid" THEN Finish("validation_failed")
             ELSE pc' = "resolve" /\ outcome' = outcome
    /\ UNCHANGED <<path, media_type, attempt, loopVars, histVars, lastTorrentio, sideVars>>

(***************************************************************************)
(* jellyseer_webhook up to validation: the test notification, a payload    *)
(* that fails model_validate (or is no JSON), a valid payload.             *)
(***************************************************************************)
PushReceive ==
    /\ path = "push" /\ pc = "receive"
    /\ \E payload \in {"test", "invalid", "valid"} :
          IF payload = "test" THEN Finish("test_notification")
          ELSE IF payload = "invalid" THEN Finish("validation_failed")
          ELSE pc' = "resolve" /\ outcome' = outcome
    /\ UNCHANGED <<path, media_type, attempt, loopVars, histVars, lastTrakt,
                   lastTorrentio, sideVars>>

\* imdb_id = get_imdb_id_from_trakt(...); if not imdb_id: return
Resolve ==
    /\ pc = "resolve"
    /\ \E resp \in TraktResponses :
          LET r == get_imdb_id_from_trakt(attempt, resp)
          IN  /\ lastTrakt' = resp
              /\ IF r = "retry" THEN attempt' = attempt + 1 /\ pc' = pc /\ outcome' = outcome
                 ELSE IF r = "id" THEN attempt' = 0 /\ pc' = "discover" /\ outcome' = outcome
                 ELSE /\ attempt' = attempt
                      /\ IF r = "none" THEN Finish("imdb_not_found")
                         ELSE Finish("exception")
    /\ UNCHANGED <<path, media_type, loopVars, histVars, lastTorrentio, sideVars>>

\* torrentio_results = query_torrentio(...);
\* if not torrentio_results or not torrentio_results.get('streams'): return
Discover ==
    /\ pc = "discover"
    /\ \E resp \in TorrentioResponses :
          LET r == query_torrentio(attempt, resp)
          IN  /\ lastTorrentio' = resp
              /\ IF r = "retry"
                 THEN attempt' = attempt + 1 /\ pc' = pc /\ outcome' = outcome
                      /\ more' = more
                 ELSE /\ attempt' = 0
                      /\ IF r = "json" /\ resp = "200_streams"
                         THEN more' = TRUE /\ pc' = "loop" /\ outcome' = outcome
                         ELSE /\ more' = more
                              /\ IF r = "raise" THEN Finish("exception")
                                 ELSE Finish("no_torrents_found")
    /\ UNCHANGED <<path, media_type, i, checked_hashes, garbage_count, ranked_torrents,
                   top_torrents, histVars, lastTrakt, sideVars>>

(***************************************************************************)
(* The poll loop.                                                          *)
(***************************************************************************)
SeenHashes == { checks[j].hash : j \in 1..Len(checks) }

\* The next stream of the list: the fields the loop reads.
PollStreams == [infoHash : 0..(Cardinality(SeenHashes) + 1), title : BOOLEAN]

\* What the download service says of a hash: its entry holds a non-empty "rd" list.
Cached(hash, resp) ==
    /\ resp.status = 200 /\ resp.kind = "dict"
    /\ hash \in DOMAIN resp.data /\ resp.data[hash] = "rd"

\* What rtn.rank says of a candidate: "accepted" (fetch is true), "rejected" (fetch
\* is false, or GarbageTorrent), "raised" (another exception).
RankClass(rk) ==
    IF rk.kind = "error" THEN "raised"
    ELSE IF rk.kind = "torrent" /\ rk.fetch THEN "accepted"
    ELSE "rejected"

\* An entry of the history of checks: the hash, the service's answer, and the
\* ranking's answer ("none" when rtn.rank was not called).
Check(hash, cached, rk, rank) ==
    [hash |-> hash, cached |-> cached, rk |-> rk, rank |-> rank]

Unranked(hash, resp) == Check(hash, Cached(hash, resp), "none", 0)

Ranked(hash, resp, rk) ==
    Check(hash, Cached(hash, resp), RankClass(rk),
          IF RankClass(rk) = "accepted" THEN rk.rank ELSE 0)

\* The loop without its break, and with the break one check late.
NeverBreak(nChecked, garbage) == FALSE

BreakAtSix(nChecked, garbage) ==
    nChecked >= max_hashes_to_check + 1 /\ garbage = max_hashes_to_check + 1

\* len(checked_hashes) >= max_hashes_to_check and garbage_count == max_hashes_to_check
ShouldBreak(nChecked, garbage) ==
    nChecked >= max_hashes_to_check /\ garbage = max_hashes_to_check

\* The end of one iteration that checked a hash, with the loop's new locals.
PollChecked(hash, garbage, ranked, check) ==
    /\ checked_hashes' = checked_hashes \cup {hash}
    /\ garbage_count' = garbage
    /\ ranked_torrents' = ranked
    /\ checks' = Append(checks, check)
    /\ i' = i + 1
    /\ more' \in BOOLEAN
    /\ IF ShouldBreak(Cardinality(checked_hashes \cup {hash}), garbage)
       THEN broke' = TRUE /\ pc' = "select"
       ELSE broke' = broke /\ pc' = IF more' THEN "loop" ELSE "select"
    /\ outcome' = outcome

\* An exception in the loop body goes to the except clause of the pipeline.
PollRaised(hash, check) ==
    /\ checked_hashes' = checked_hashes \cup {hash}
    /\ checks' = Append(checks, check)
    /\ i' = i + 1
    /\ more' \in BOOLEAN
    /\ Finish("exception")
    /\ UNCHANGED <<garbage_count, ranked_torrents, broke>>

\* One iteration of: for stream in torrentio_results['streams']
PollIter ==
    /\ path = "poll" /\ pc = "loop" /\ i < MaxStreams
    /\ \E stream \in PollStreams :
          LET h == stream.infoHash
          IN  IF h # 0 /\ stream.title /\ h \notin checked_hashes
              THEN \E resp \in AvailResponses(h) :
                      IF resp.kind = "raise"
                      THEN PollRaised(h, Unranked(h, resp))
                      ELSE IF check_rd_availability(h, resp) # "none"
                      THEN \E rk \in RankOutcomes :
                              IF rk.kind = "error"
                              THEN PollRaised(h, Ranked(h, resp, rk))
                              ELSE IF rk.kind = "garbage"
                              THEN PollChecked(h, garbage_count + 1, ranked_torrents,
                                               Ranked(h, resp, rk))
                              ELSE IF rk.fetch
                              THEN PollChecked(h, garbage_count,
                                               Append(ranked_torrents,
                                                      [infohash |-> h, rank |-> rk.rank]),
                                               Ranked(h, resp, rk))
                              ELSE PollChecked(h, garbage_count + 1, ranked_torrents,
                                               Ranked(h, resp, rk))
                      ELSE PollChecked(h, garbage_count, ranked_torrents, Unranked(h, resp))
              ELSE /\ i' = i + 1
                   /\ more' \in BOOLEAN
                   /\ pc' = IF more' THEN "loop" ELSE "select"
                   /\ UNCHANGED <<checked_hashes, garbage_count, ranked_torrents, checks,
                                  broke, outcome>>
    /\ UNCHANGED <<path, media_type, attempt, top_torrents, commitLog, acks, lastTrakt,
                   lastTorrentio, sideVars>>

Commit(info_hash, file_idx, result) ==
    [infohash |-> info_hash, file_idx |-> file_idx, media_type |-> media_type,
     result |-> result]

\* From the sort to the end of process_overseerr_request.
PollSelect ==
    /\ path = "poll" /\ pc = "select"
    /\ LET top == SubSeq(sorted_torrents(ranked_torrents), 1,
                         Min(TopN, Len(ranked_torrents)))
       IN  /\ top_torrents' = top
           /\ IF top = <<>>
              THEN Finish("no_valid_torrents") /\ UNCHANGED <<commitLog, acks>>
              ELSE \E env \in CommitEnvs :
                      LET best_torrent == top[1]
                          result == add_torrent_and_select_files(
                                        best_torrent.infohash, PyStr(PollFileIdx),
                                        media_type, env)
                      IN  /\ commitLog' = Append(commitLog,
                                 Commit(best_torrent.infohash, PyStr(PollFileIdx), result))
                          /\ IF ResultSuccess(result) = "True"
                             THEN acks' = acks + 1 /\ Finish("completed")
                             ELSE IF ResultSuccess(result) = "False"
                             THEN acks' = acks /\ Finish("commit_failed")
                             ELSE acks' = acks /\ Finish("exception")
    /\ UNCHANGED <<path, media_type, attempt, more, i, checked_hashes, garbage_count,
                   ranked_torrents, checks, broke, lastTrakt,
                   lastTorrentio, sideVars>>

(***************************************************************************)
(* The push loop.                                                          *)
(***************************************************************************)
PushFileIdxs == {PyNone} \cup { PyInt(n) : n \in (0 - 1)..MaxFiles }

PushStreams ==
    [infoHash : 0..(Cardinality(SeenHashes) + 1), title : BOOLEAN, fileIdx : PushFileIdxs]

\* The end of an iteration that goes on to the next stream.
PushContinue ==
    /\ i' = i + 1
    /\ more' \in BOOLEAN
    /\ IF more' THEN pc' = "loop" /\ outcome' = outcome
       ELSE Finish("no_torrents_available")

\* An exception in the loop body goes to the except clause of the handler.
PushRaised ==
    /\ i' = i + 1
    /\ more' \in BOOLEAN
    /\ Finish("exception")

\* One iteration of: for stream in torrentio_results['streams'], and the return
\* that follows the loop.
PushIter ==
    /\ path = "push" /\ pc = "loop" /\ i < MaxPushStreams
    /\ \E stream \in PushStreams :
          LET h == stream.infoHash
          IN  IF h # 0 /\ stream.title /\ stream.fileIdx # PyNone
              THEN \E resp \in AvailResponses(h) :
                      IF resp.kind = "raise"
                      THEN /\ checks' = Append(checks, Unranked(h, resp))
                           /\ PushRaised /\ commitLog' = commitLog
                      ELSE IF check_rd_availability(h, resp) # "none"
                      THEN \E rk \in RankOutcomes :
                              IF rk.kind = "error"
                              THEN /\ checks' = Append(checks, Ranked(h, resp, rk))
                                   /\ PushRaised /\ commitLog' = commitLog
                              ELSE IF rk.kind = "garbage"
                              THEN /\ checks' = Append(checks, Ranked(h, resp, rk))
                                   /\ PushContinue /\ commitLog' = commitLog
                              ELSE IF rk.fetch
                              THEN \E env \in CommitEnvs :
                                      LET result == add_torrent_and_select_files(
                                                        h, stream.fileIdx, media_type, env)
                                      IN  /\ checks' = Append(checks, Ranked(h, resp, rk))
                                          /\ commitLog' = Append(commitLog,
                                                 Commit(h, stream.fileIdx, result))
                                          /\ i' = i + 1
                                          /\ more' \in BOOLEAN
                                          /\ IF ResultSuccess(result) = "True"
                                             THEN Finish("torrent_added")
                                             ELSE IF ResultSuccess(result) = "False"
                                             THEN Finish("commit_failed")
                                             ELSE Finish("exception")
                              ELSE /\ checks' = Append(checks, Ranked(h, resp, rk))
                                   /\ PushContinue /\ commitLog' = commitLog
                      ELSE /\ checks' = Append(checks, Unranked(h, resp))
                           /\ PushContinue /\ commitLog' = commitLog
              ELSE PushContinue /\ UNCHANGED <<checks, commitLog>>
    /\ UNCHANGED <<path, media_type, attempt, checked_hashes, garbage_count,
                   ranked_torrents, top_torrents, acks, broke, lastTrakt,
                   lastTorrentio, sideVars>>

Next == PushReceive \/ Resolve \/ Discover \/ PollIter \/ PollSelect \/ PushIter

Spec == Init /\ [][Next]_vars

(***************************************************************************)
(* Properties.                                                             *)
(***************************************************************************)
CheckIdx == 1..Len(checks)
CommitIdx == 1..Len(commitLog)

\* The checks whose hash the service reported cached and the ranking accepted.
AcceptedIdx == { j \in CheckIdx : checks[j].cached /\ checks[j].rk = "accepted" }
RejectedIdx == { j \in CheckIdx : checks[j].rk = "rejected" }

\* The download service did all that the commit asked of it: it took the magnet
\* and gave a job id, listed the files, and refused no selection.
ServiceAccepted(r) ==
    /\ r.selectCalled
    /\ r.sel.listed
    /\ r.sel.ret # "False"
    /\ r.sel.exc # "RequestException"

\* The commit returned success: all three calls were answered with success.
CommitSucceeded(r) ==
    /\ r.kind = "dict" /\ r.success
    /\ r.selectCalled /\ r.sel.listed /\ r.sel.sent /\ r.sel.ret = "True"

\* C1: on the poll path mark_completed is called at most once per request, and only
\* when the commit of that request returned success; after a resolve, discovery,
\* selection or commit failure it is not called.
C1_AckOnlyAfterCommitSuccess ==
    path = "poll" =>
        /\ acks <= 1
        /\ Len(commitLog) <= 1
        /\ acks = 1 => (Len(commitLog) = 1 /\ CommitSucceeded(commitLog[1].result))
        /\ (pc = "done" /\ outcome # "completed") => acks = 0

\* A poll run whose commit was refused after the magnet was taken: no acknowledgement.
C1_Witness ==
    /\ path = "poll" /\ pc = "done"
    /\ Len(commitLog) = 1
    /\ commitLog[1].result.kind = "dict" /\ ~commitLog[1].result.success
    /\ commitLog[1].result.selectCalled
    /\ acks = 0

\* C2: a poll run for a movie whose identifier resolved, whose discovery returned one
\* candidate, cached and accepted, and whose download service refused nothing, has
\* called the commit once and mark_completed once.
C2_OneCommitOneAck ==
    (/\ path = "poll" /\ media_type = "movie" /\ pc = "done"
     /\ i = 1 /\ ~more
     /\ Len(checks) = 1 /\ AcceptedIdx = {1})
    => /\ Len(commitLog) = 1
       /\ ServiceAccepted(commitLog[1].result) => acks = 1

\* C3: on both paths every commit is for a candidate whose hash the service reported
\* cached and which the ranking accepted.
C3_CommitOnlyEligible ==
    \A c \in CommitIdx :
        \E j \in AcceptedIdx : checks[j].hash = commitLog[c].infohash

\* A poll commit after a check of a hash that was not cached and one that was rejected.
C3_Witness ==
    /\ path = "poll" /\ Len(commitLog) = 1
    /\ \E j \in CheckIdx : ~checks[j].cached
    /\ RejectedIdx # {}

\* C4: the poll path commits the accepted candidate of highest rank, the earliest
\* discovered one among those of highest rank, and top_torrents holds the (at most)
\* five best in descending order of rank.
C4_CommitsBestEarliest ==
    (path = "poll" /\ commitLog # <<>>) =>
        /\ \E j \in AcceptedIdx :
              /\ checks[j].hash = commitLog[1].infohash
              /\ \A m \in AcceptedIdx :
                    \/ checks[m].rank < checks[j].rank
                    \/ (checks[m].rank = checks[j].rank /\ j <= m)
        /\ Len(top_torrents) = Min(TopN, Cardinality(AcceptedIdx))
        /\ top_torrents[1].infohash = commitLog[1].infohash
        /\ \A p1, p2 \in 1..Len(top_torrents) :
              p1 < p2 => top_torrents[p1].rank >= top_torrents[p2].rank

\* A poll commit where a lower rank came first and the highest rank occurs twice.
C4_Witness ==
    /\ path = "poll" /\ commitLog # <<>>
    /\ \E j, m, n \in AcceptedIdx :
          /\ j < m /\ m < n
          /\ checks[j].rank < checks[m].rank
          /\ checks[m].rank = checks[n].rank
          /\ commitLog[1].infohash = checks[m].hash

C6_FiveRejectedStops ==
    (/\ path = "poll"
     /\ Len(checks) >= max_hashes_to_check
     /\ \A j \in 1..max_hashes_to_check : j \in RejectedIdx)
    => /\ Len(checks) = max_hashes_to_check
       /\ broke
       /\ pc \in {"select", "done"}
       /\ commitLog = <<>>
       /\ acks = 0
       /\ pc = "done" => outcome = "no_valid_torrents"

\* Such a run at its end, with streams left unread.
C6_Witness ==
    /\ path = "poll" /\ pc = "done" /\ more
    /\ Len(checks) = max_hashes_to_check
    /\ RejectedIdx = CheckIdx
    /\ outcome = "no_valid_torrents"

\* C7: the poll loop stops with streams left unread only when at least
\* max_hashes_to_check hashes were checked and every one of them was rejected.
C7_EarlyStopOnlyAllRejected ==
    (path = "poll" /\ broke /\ more) =>
        /\ Len(checks) >= max_hashes_to_check
        /\ RejectedIdx = CheckIdx

\* C8: a commit for a movie that got the file listing asks for exactly the file at
\* the index, or, the index being out of range, returns success = false and asks
\* for no selection.
C8_MovieSelectsIndexedFile ==
    \A c \in CommitIdx :
        LET r == commitLog[c].result
            idx == commitLog[c].file_idx
        IN  (commitLog[c].media_type = "movie" /\ r.sel.listed) =>
                IF idx.t = "int" /\ 0 <= idx.v /\ idx.v < Len(r.sel.files)
                THEN r.sel.sent /\ r.sel.selected = <<r.sel.files[idx.v + 1].id>>
                ELSE r.kind = "dict" /\ ~r.success /\ ~r.sel.sent

\* The ids of the video files of a listing.
VideoIds(files) == { files[k].id : k \in { n \in 1..Len(files) : files[n].mime = "video" } }

Ids(seq) == { seq[k] : k \in 1..Len(seq) }

\* C9: a commit for a series that got the file listing asks for exactly the video
\* files, whatever the index, and fails only when there is none or the service
\* refuses the selection.
C9_SeriesSelectsAllVideo ==
    \A c \in CommitIdx :
        LET r == commitLog[c].result
        IN  (/\ commitLog[c].media_type = "tv"
             /\ commitLog[c].file_idx.t = "int"
             /\ r.sel.listed)
            => IF VideoIds(r.sel.files) = {}
               THEN r.kind = "dict" /\ ~r.success /\ ~r.sel.sent
               ELSE /\ r.sel.sent
                    /\ Ids(r.sel.selected) = VideoIds(r.sel.files)
                    /\ r.sel.ret = "True" => (r.kind = "dict" /\ r.success)

\* C10: every commit returns a result with success and a message, and never None
\* nor an exception.
C10_CommitAlwaysReturnsResult ==
    \A c \in CommitIdx :
        LET r == commitLog[c].result
        IN  /\ r.kind = "dict"
            /\ r.message # ""
            /\ r.success <=> CommitSucceeded(r)

(***************************************************************************)
(* get_instant_availability on its own: lists of several hashes, answers   *)
(* that hold any of the hashes, and repeated calls against an unchanged    *)
(* upstream state.                                                         *)
(***************************************************************************)
HashUniverse == 1..MaxHashes

\* The answers of GET /torrents/instantAvailability/{hashes}.
AvailUpstreams ==
    { [status |-> 200, kind |-> "dict", data |-> d] :
          d \in UNION { [D -> {"rd", "rd_empty", "no_rd"}] : D \in SUBSET HashUniverse } }
    \cup { [status |-> 200, kind |-> "list", data |-> EmptyData],
           [status |-> 503, kind |-> "dict", data |-> EmptyData],
           [status |-> 0, kind |-> "raise", data |-> EmptyData] }

\* What one call gives: the mapping it returns, or the exception of session.get.
AvailResult(hashes, resp) ==
    IF resp.kind = "raise" THEN [raised |-> TRUE, mapping |-> EmptyData]
    ELSE [raised |-> FALSE, mapping |-> get_instant_availability(hashes, resp)]

InitAvail ==
    /\ PipeAtRest
    /\ av_hashes \in (SUBSET HashUniverse) \ {{}}
    /\ av_upstream \in AvailUpstreams
    /\ av_results = <<>>
    /\ PoolAtRest /\ LimitAtRest /\ CallsAtRest

CallAvailability ==
    /\ Len(av_results) < MaxAvailCalls
    /\ av_results' = Append(av_results, AvailResult(av_hashes, av_upstream))
    /\ UNCHANGED <<av_hashes, av_upstream, notAvail>>

NextAvail == CallAvailability

SpecAvail == InitAvail /\ [][NextAvail]_vars

(***************************************************************************)
(* C18: the mapping get_instant_availability returns has exactly the       *)
(* requested hashes as keys; a hash absent from a successful answer, one   *)
(* whose entry is empty, a non-200 status and a list-shaped answer all map *)
(* to the empty record; calls against an unchanged upstream state give     *)
(* identical mappings.                                                     *)
(***************************************************************************)
\* The answer holds a non-empty "rd" list for the hash.
AnsweredCached(h) ==
    /\ av_upstream.status = 200 /\ av_upstream.kind = "dict"
    /\ h \in DOMAIN av_upstream.data /\ av_upstream.data[h] = "rd"

C18_MappingHasRequestedKeys ==
    \A k \in 1..Len(av_results) :
        LET r == av_results[k]
        IN  /\ r = av_results[1]
            /\ ~r.raised =>
                  /\ DOMAIN r.mapping = av_hashes
                  /\ \A h \in av_hashes : ~AnsweredCached(h) => r.mapping[h] = "empty"

(***************************************************************************)
(* C19: a failure of the availability check of one candidate (a non-200    *)
(* status, a connection error) counts as "unavailable" and does not abort  *)
(* the run: no run ends with an exception on a candidate whose check found *)
(* nothing to rank.                                                        *)
(***************************************************************************)
C19_FailedCheckDoesNotAbort ==
    (pc = "done" /\ outcome = "exception" /\ checks # <<>> /\ commitLog = <<>>)
        => checks[Len(checks)].rk # "none"

(***************************************************************************)
(* C20: the resolver makes at most MaxAttempts attempts; a further attempt *)
(* follows only a transport failure; the MaxAttempts-th transport failure  *)
(* and a successful but empty result both give "not found", the latter at  *)
(* once; a transport failure never raises.                                 *)
(***************************************************************************)
\* The run ended inside get_imdb_id_from_trakt.
ResolverEnded == pc = "done" /\ lastTrakt \notin {"", "200_id"}

C20_ResolverAtMostFiveAttempts ==
    /\ (pc = "resolve" \/ ResolverEnded) => attempt \in 0..(MaxAttempts - 1)
    /\ (pc = "resolve" /\ attempt = 0) => lastTrakt = ""
    /\ (pc = "resolve" /\ attempt > 0) => lastTrakt = "transport"
    /\ (ResolverEnded /\ lastTrakt = "transport")
          => (attempt = MaxAttempts - 1 /\ outcome = "imdb_not_found")
    /\ (ResolverEnded /\ lastTrakt = "200_empty") => outcome = "imdb_not_found"

\* The resolver gave up after MaxAttempts transport failures.
C20_Witness ==
    /\ ResolverEnded /\ lastTrakt = "transport"
    /\ attempt = MaxAttempts - 1 /\ outcome = "imdb_not_found"

(***************************************************************************)
(* The worker pool: start_processing_queue, the worker threads running     *)
(* process_request_queue, and request_queue between them.  Requests are    *)
(* numbered 1..fetched in the order of the listing; None is the sentinel.  *)
(* A pipeline run is one step here: the specification Spec above follows   *)
(* it through its stages.                                                  *)
(***************************************************************************)
Workers == 1..num_threads
Requests == 1..MaxRequests
None == 0

\* How the body of process_overseerr_request can end.
PipelineEnds == {"success", "negative", "exception"}

\* An exception that neither except clause catches.
ExceptionUncaught(ending) == "nowhere"

\* Where an exception raised in the body of the pipeline is caught: by the
\* except Exception of process_overseerr_request; the clause of the worker loop
\* stands behind it.
ExceptionCaughtAt(ending) == "pipeline"

\* A join that does not wait.
join_returns_at_once(unf) == TRUE

\* request_queue.join() returns when the count of unfinished tasks is zero.
join_returns(unf) == unf = 0

\* A task_done that does not count.
task_done_lost(unf) == unf

\* request_queue.task_done(): the new count of unfinished tasks.
task_done(unf) == unf - 1

InitPool ==
    /\ PipeAtRest /\ AvailAtRest /\ LimitAtRest /\ CallsAtRest
    /\ sp = "fetch" /\ fetched = 0 /\ queue = <<>> /\ unfinished = 0 /\ threads = 0
    /\ wpc = [w \in Workers |-> "unstarted"]
    /\ witem = [w \in Workers |-> None]
    /\ dequeues = [r \in Requests |-> 0]
    /\ runs = [r \in Requests |-> 0]
    /\ dones = [r \in Requests |-> 0]
    /\ raisedIn = {} /\ wcaught = {} /\ sentinels = 0

workerVars == <<wpc, witem, dequeues, runs, dones, raisedIn, wcaught>>

\* overseerr_requests = get_overseerr_media_requests(): the listing, a non-200
\* status (no request), or an exception of session.get, which nothing catches.
SpFetch ==
    /\ sp = "fetch"
    /\ \E answer \in {"results", "non200", "raise"} :
          IF answer = "raise" THEN sp' = "raised" /\ fetched' = fetched
          ELSE IF answer = "non200" THEN sp' = "put" /\ fetched' = 0
          ELSE sp' = "put" /\ fetched' \in 0..MaxRequests
    /\ UNCHANGED <<queue, unfinished, threads, workerVars, sentinels, notPool>>

\* for request in overseerr_requests: request_queue.put(request)
SpPut ==
    /\ sp = "put"
    /\ LET nput == Cardinality({ k \in 1..Len(queue) : queue[k] # None })
       IN  IF nput < fetched
           THEN /\ queue' = Append(queue, nput + 1)
                /\ unfinished' = unfinished + 1
                /\ sp' = sp
           ELSE sp' = "start" /\ UNCHANGED <<queue, unfinished>>
    /\ UNCHANGED <<fetched, threads, workerVars, sentinels, notPool>>

\* for _ in range(num_threads): threading.Thread(...).start()
SpStart ==
    /\ sp = "start"
    /\ IF threads < num_threads
       THEN /\ threads' = threads + 1
            /\ wpc' = [wpc EXCEPT ![threads + 1] = "get"]
            /\ sp' = sp
       ELSE sp' = "join" /\ UNCHANGED <<threads, wpc>>
    /\ UNCHANGED <<fetched, queue, unfinished, witem, dequeues, runs, dones, raisedIn,
                   wcaught, sentinels, notPool>>

\* request_queue.join()
SpJoin ==
    /\ sp = "join"
    /\ join_returns(unfinished)
    /\ sp' = "returned"
    /\ UNCHANGED <<fetched, queue, unfinished, threads, workerVars, sentinels, notPool>>

\* request = request_queue.get(); if request is None: break
WGet(w) ==
    /\ wpc[w] = "get"
    /\ queue # <<>>
    /\ queue' = Tail(queue)
    /\ IF Head(queue) = None
       THEN /\ wpc' = [wpc EXCEPT ![w] = "exited"]
            /\ UNCHANGED <<witem, dequeues>>
       ELSE /\ wpc' = [wpc EXCEPT ![w] = "run"]
            /\ witem' = [witem EXCEPT ![w] = Head(queue)]
            /\ dequeues' = [dequeues EXCEPT ![Head(queue)] = @ + 1]
    /\ UNCHANGED <<sp, fetched, unfinished, threads, runs, dones, raisedIn, wcaught,
                   sentinels, notPool>>

\* process_overseerr_request(request)
WRun(w) ==
    /\ wpc[w] = "run"
    /\ \E ending \in PipelineEnds :
          LET where == IF ending = "exception" THEN ExceptionCaughtAt(ending)
                       ELSE "pipeline"
          IN  /\ wpc' = [wpc EXCEPT ![w] = IF where = "pipeline" THEN "task_done"
                                           ELSE IF where = "worker" THEN "handler"
                                           ELSE "dead"]
              /\ runs' = [runs EXCEPT ![witem[w]] = @ + 1]
              /\ raisedIn' = IF ending = "exception" THEN raisedIn \cup {witem[w]}
                             ELSE raisedIn
              /\ wcaught' = IF ending = "exception" THEN wcaught \cup {w} ELSE wcaught
    /\ UNCHANGED <<sp, fetched, queue, unfinished, threads, witem, dequeues, dones,
                   sentinels, notPool>>

\* request_queue.task_done(), after the pipeline or in the except clause; called
\* more often than there are items it raises ValueError, also out of the clause.
WTaskDone(w) ==
    /\ wpc[w] \in {"task_done", "handler"}
    /\ IF unfinished = 0
       THEN /\ wpc' = [wpc EXCEPT ![w] = "dead"]
            /\ UNCHANGED <<unfinished, dones, witem>>
       ELSE /\ unfinished' = task_done(unfinished)
            /\ dones' = [dones EXCEPT ![witem[w]] = @ + 1]
            /\ wpc' = [wpc EXCEPT ![w] = "get"]
            /\ witem' = [witem EXCEPT ![w] = None]
    /\ UNCHANGED <<sp, fetched, queue, threads, dequeues, runs, raisedIn, wcaught,
                   sentinels, notPool>>

Worker(w) == WGet(w) \/ WRun(w) \/ WTaskDone(w)

StartProcessingQueue == SpFetch \/ SpPut \/ SpStart \/ SpJoin

NextPool ==
    \/ SpFetch \/ SpPut \/ SpStart \/ SpJoin
    \/ \E w \in Workers : WGet(w)
    \/ \E w \in Workers : WRun(w)
    \/ \E w \in Workers : WTaskDone(w)

SpecPool == InitPool /\ [][NextPool]_vars

\* Every thread that can take a step is scheduled in the end.
SpecPoolFair ==
    /\ SpecPool
    /\ WF_vars(StartProcessingQueue)
    /\ \A w \in Workers : WF_vars(Worker(w))

(***************************************************************************)
(* The pool with a producer of sentinels.  start_processing_queue puts no  *)
(* None itself; request_queue is a module-level object, and the worker     *)
(* loop answers a None item whoever puts it.                               *)
(***************************************************************************)
\* request_queue.put(None)
PutSentinel ==
    /\ sp \in {"put", "start", "join"}
    /\ sentinels < MaxSentinels
    /\ sentinels' = sentinels + 1
    /\ queue' = Append(queue, None)
    /\ unfinished' = unfinished + 1
    /\ UNCHANGED <<sp, fetched, threads, workerVars, notPool>>

NextSentinel ==
    \/ SpFetch \/ SpPut \/ SpStart \/ SpJoin
    \/ \E w \in Workers : WGet(w)
    \/ \E w \in Workers : WRun(w)
    \/ \E w \in Workers : WTaskDone(w)
    \/ PutSentinel

SpecSentinel == InitPool /\ [][NextSentinel]_vars

\* The items of the queue, and the requests a worker holds.
Queued == { queue[k] : k \in 1..Len(queue) }
InFlight == { witem[w] : w \in { v \in Workers : wpc[v] \in {"run", "task_done", "handler"} } }
LiveWorkers == { w \in Workers : wpc[w] \in {"get", "run", "task_done", "handler"} }

(***************************************************************************)
(* C13: when start_processing_queue returns, every request it enqueued was *)
(* dequeued exactly once and its pipeline ran to its end exactly once;     *)
(* none is queued or in flight; no request is ever dequeued or run twice.  *)
(***************************************************************************)
C13_DrainedOnReturn ==
    /\ \A r \in Requests : dequeues[r] <= 1 /\ runs[r] <= 1
    /\ sp = "returned" =>
          \A r \in 1..fetched :
              /\ dequeues[r] = 1 /\ runs[r] = 1
              /\ r \notin Queued /\ r \notin InFlight

\* The routine returned after the most requests the model fetches.
C13_Witness ==
    /\ sp = "returned" /\ fetched = MaxRequests
    /\ \A r \in 1..fetched : runs[r] = 1

(***************************************************************************)
(* C14: once the listing has returned, with any number of requests and     *)
(* whatever the pipelines' outcomes, start_processing_queue returns in the *)
(* end, every request marked done (under the fairness of SpecPoolFair).    *)
(***************************************************************************)
C14_EventuallyReturns ==
    (sp = "put") ~> (sp = "returned" /\ \A r \in 1..fetched : dones[r] = 1)

\* The routine returned although a pipeline met an exception.
C14_Witness == sp = "returned" /\ raisedIn # {} /\ unfinished = 0

(***************************************************************************)
(* C15: after start_processing_queue has returned, none of the workers it  *)
(* started is still waiting on the queue.                                  *)
(***************************************************************************)
C15_NoWorkerLeftWaiting ==
    sp = "returned" => \A w \in Workers : wpc[w] # "get"

C17_ExceptionKeepsWorker ==
    /\ Cardinality(LiveWorkers) = threads
    /\ \A r \in raisedIn :
          /\ dones[r] <= 1
          /\ r \notin InFlight => dones[r] = 1

\* A worker whose pipeline met an exception is running another request.
C17_Witness ==
    \E w \in wcaught :
        /\ wpc[w] = "run" /\ witem[w] \notin raisedIn
        /\ \A r \in raisedIn : dones[r] = 1

(***************************************************************************)
(* The rate limit.  Each of the four functions is decorated on its own     *)
(* with @sleep_and_retry @limits(calls=MAX_CALLS_PER_MINUTE, period=60);   *)
(* every application of limits(...) builds a decorator object with its own *)
(* counter num_calls and its own last_reset.  One pipeline run calls       *)
(* query_torrentio, then check_rd_availability once per candidate, then    *)
(* add_torrent_and_select_files, which calls select_files_in_rd.  Time     *)
(* passes a period at a time.                                              *)
(***************************************************************************)
Limited == {"query_torrentio", "check_rd_availability", "add_torrent_and_select_files",
            "select_files_in_rd"}

\* The most candidates the run checks: one more than a counter admits.
MaxChecked == MAX_CALLS_PER_MINUTE + 1

\* limits: the wrapper of one decorated function, entered at time now with the
\* counter st.  It resets the counter when the period is over, counts the call,
\* and raises RateLimitException(period_remaining) above the cap.
limits(st, now) ==
    LET period_remaining == period - (now - st.last_reset)
        fresh == IF period_remaining <= 0 THEN [num_calls |-> 0, last_reset |-> now]
                 ELSE st
        counted == [fresh EXCEPT !.num_calls = @ + 1]
    IN  [state |-> counted,
         raised |-> counted.num_calls > MAX_CALLS_PER_MINUTE,
         period_remaining |-> period_remaining]

InitLimit ==
    /\ PipeAtRest /\ AvailAtRest /\ PoolAtRest /\ CallsAtRest
    /\ rl_pc = "query_torrentio"
    /\ rl_checked = 0
    /\ rl_state = [f \in Limited |-> [num_calls |-> 0, last_reset |-> 0]]
    /\ rl_clock = 0
    /\ rl_sleeping = FALSE /\ rl_wake = 0
    /\ rl_window = 0

\* A call of the decorated function rl_pc: through limits, then the body, or
\* into the sleep of sleep_and_retry.
LimCall ==
    /\ rl_pc \in Limited /\ ~rl_sleeping
    /\ LET r == limits(rl_state[rl_pc], rl_clock)
       IN  /\ rl_state' = [rl_state EXCEPT ![rl_pc] = r.state]
           /\ IF r.raised
              THEN /\ rl_sleeping' = TRUE
                   /\ rl_wake' = rl_clock + r.period_remaining
                   /\ UNCHANGED <<rl_pc, rl_checked, rl_window>>
              ELSE /\ rl_window' = rl_window + 1
                   /\ UNCHANGED <<rl_sleeping, rl_wake>>
                   /\ IF rl_pc = "query_torrentio"
                      THEN rl_pc' \in {"check_rd_availability", "done"}
                           /\ rl_checked' = rl_checked
                      ELSE IF rl_pc = "check_rd_availability"
                      THEN /\ rl_checked' = rl_checked + 1
                           /\ rl_pc' \in (IF rl_checked' < MaxChecked
                                          THEN {"check_rd_availability"} ELSE {})
                                         \cup {"add_torrent_and_select_files", "done"}
                      ELSE IF rl_pc = "add_torrent_and_select_files"
                      THEN rl_pc' \in {"select_files_in_rd", "done"}
                           /\ rl_checked' = rl_checked
                      ELSE rl_pc' = "done" /\ rl_checked' = rl_checked
    /\ UNCHANGED <<rl_clock, notLimit>>

\* time.sleep(exception.period_remaining) is over: sleep_and_retry calls again.
LimWake ==
    /\ rl_sleeping /\ rl_clock >= rl_wake
    /\ rl_sleeping' = FALSE
    /\ UNCHANGED <<rl_pc, rl_checked, rl_state, rl_clock, rl_wake, rl_window, notLimit>>

\* A period passes: the calls made before it leave the window.
LimTick ==
    /\ rl_clock < MaxPeriods * period
    /\ rl_clock' = rl_clock + period
    /\ rl_window' = 0
    /\ UNCHANGED <<rl_pc, rl_checked, rl_state, rl_sleeping, rl_wake, notLimit>>

NextLimit == LimCall \/ LimWake \/ LimTick

SpecLimit == InitLimit /\ [][NextLimit]_vars

(***************************************************************************)
(* C11: counted over all four rate-limited functions together, the calls   *)
(* within 60 seconds never exceed MAX_CALLS_PER_MINUTE; a call that meets  *)
(* the cap sleeps no longer than a period and is then made.                *)
(***************************************************************************)
C11_SharedCapNeverExceeded ==
    /\ rl_window <= MAX_CALLS_PER_MINUTE
    /\ rl_sleeping => rl_wake <= rl_clock + period

(***************************************************************************)
(* The outbound calls of one thread, in the order the code makes them: the *)
(* listing of start_processing_queue, then for a request the resolver, the *)
(* discovery, the availability lookups and the commit; each call with the  *)
(* timeout argument the code passes to session.get or session.post.  An    *)
(* upstream answers, fails (a connection error) or stays silent.           *)
(***************************************************************************)
NoTimeout == 0 - 1

\* timeout= of each call; the session (utils.py:35-37) sets none of its own.
timeout_of(site) ==
    IF site = "listing" THEN NoTimeout              \* utils.py:72
    ELSE IF site = "resolve" THEN 10                \* utils.py:219
    ELSE IF site = "discover" THEN 10               \* utils.py:254
    ELSE IF site = "availability" THEN NoTimeout    \* utils.py:288
    ELSE IF site = "addMagnet" THEN NoTimeout       \* utils.py:352
    ELSE IF site = "info" THEN NoTimeout            \* utils.py:396
    ELSE IF site = "selectFiles" THEN NoTimeout     \* utils.py:429
    ELSE NoTimeout                                  \* "acknowledge", utils.py:173

Upstreams == {"answers", "fails", "silent"}

\* How a call ends: "response", "error" (a RequestException), "timeout" (the
\* RequestException raised when the timeout runs out), or "never".
call(site, upstream) ==
    IF upstream = "answers" THEN "response"
    ELSE IF upstream = "fails" THEN "error"
    ELSE IF timeout_of(site) = NoTimeout THEN "never"
    ELSE "timeout"

InitCalls ==
    /\ PipeAtRest /\ AvailAtRest /\ PoolAtRest /\ LimitAtRest
    /\ oc_path \in {"poll", "push"}
    /\ oc_pc = IF oc_path = "poll" THEN "listing" ELSE "resolve"
    /\ oc_attempt = 0 /\ oc_checked = 0
    /\ oc_blocked = FALSE /\ oc_timeouts = 0

\* The call that follows a response of the call at site; "done" ends the run.
\* On the poll path the commit ends after the file listing (the TypeError of
\* select_files_in_rd), so that no selection and no acknowledgement is sent.
AfterResponse(site) ==
    IF site = "listing" THEN {"resolve", "done"}
    ELSE IF site = "resolve" THEN {"discover", "done"}
    ELSE IF site = "discover" THEN {"availability", "done"}
    ELSE IF site = "availability"
    THEN (IF oc_checked + 1 < MaxLookups THEN {"availability"} ELSE {})
         \cup {"addMagnet", "done"}
    ELSE IF site = "addMagnet" THEN {"info", "done"}
    ELSE IF site = "info"
    THEN (IF oc_path = "push" THEN {"selectFiles"} ELSE {}) \cup {"done"}
    ELSE {"done"}

\* One outbound call and what the code does with its end.
OutCall ==
    /\ oc_pc \notin {"done", "rest"} /\ ~oc_blocked
    /\ \E upstream \in Upstreams :
          LET end == call(oc_pc, upstream)
          IN  /\ oc_blocked' = (end = "never")
              /\ oc_timeouts' = IF end = "timeout" THEN oc_timeouts + 1 ELSE oc_timeouts
              /\ oc_checked' = IF oc_pc = "availability" /\ end = "response"
                               THEN oc_checked + 1 ELSE oc_checked
              /\ IF end = "never" THEN UNCHANGED <<oc_pc, oc_attempt>>
                 ELSE IF end = "response"
                 THEN oc_pc' \in AfterResponse(oc_pc) /\ oc_attempt' = 0
                 ELSE IF oc_pc \in {"resolve", "discover"} /\ oc_attempt < MaxAttempts - 1
                 THEN oc_pc' = oc_pc /\ oc_attempt' = oc_attempt + 1
                 ELSE oc_pc' = "done" /\ oc_attempt' = oc_attempt
    /\ UNCHANGED <<oc_path, notCalls>>

NextCalls == OutCall

SpecCalls == InitCalls /\ [][NextCalls]_vars

(***************************************************************************)
(* C12: every outbound call is bounded by a timeout, so that no thread     *)
(* stays blocked for ever on a call to an upstream that never answers.     *)
(***************************************************************************)
C12_NoCallBlocksForever == ~oc_blocked

(***************************************************************************)
(* C21: when the resolver finds no identifier the request is skipped: no   *)
(* discovery call, no availability check, no commit and no acknowledgement *)
(* is made for it, on the poll path and on the push path.                  *)
(***************************************************************************)
\* The answers of Trakt that carry no identifier.
NotFoundAnswers == {"200_noimdb", "200_empty", "non200"}

C21_NotFoundSkipsRequest ==
    (lastTrakt \in NotFoundAnswers \/ outcome = "imdb_not_found") =>
        /\ pc = "done" /\ outcome = "imdb_not_found"
        /\ lastTorrentio = "" /\ checks = <<>> /\ commitLog = <<>> /\ acks = 0

\* A notification whose title Trakt does not know.
C21_Witness ==
    /\ path = "push" /\ pc = "done" /\ outcome = "imdb_not_found"
    /\ lastTrakt = "200_empty"

(***************************************************************************)
(* C22: the push handler runs no pipeline step before validation passes:   *)
(* a test notification is answered with success true, a payload that fails *)
(* validation with success false, and in both cases, as before the payload *)
(* is read, nothing is enqueued and no resolver, discovery, availability,  *)
(* commit or acknowledgement call is made.                                 *)
(***************************************************************************)
NoStepYet ==
    /\ lastTrakt = "" /\ lastTorrentio = ""
    /\ checks = <<>> /\ commitLog = <<>> /\ acks = 0
    /\ queue = <<>> /\ unfinished = 0

C22_NoStepBeforeValidation ==
    /\ (path = "push" /\ pc = "receive") => NoStepYet
    /\ outcome = "test_notification" => (NoStepYet /\ ResponseSuccess(outcome))
    /\ outcome = "validation_failed" => (NoStepYet /\ ~ResponseSuccess(outcome))

\* A payload that failed validation was answered.
C22_Witness == path = "push" /\ pc = "done" /\ outcome = "validation_failed"

(***************************************************************************)
(* C23: on the push path candidates are examined in discovery order and    *)
(* the first one that is both available and accepted is committed, after   *)
(* which the iteration stops: at most one commit per notification, whether *)
(* it succeeds or fails, and no candidate is checked or ranked after it.   *)
(***************************************************************************)
C23_PushCommitsFirstAccepted ==
    path = "push" =>
        /\ Len(commitLog) <= 1
        /\ commitLog = <<>> => AcceptedIdx = {}
        /\ commitLog # <<>> =>
              /\ pc = "done"
              /\ AcceptedIdx = {Len(checks)}
              /\ checks[Len(checks)].hash = commitLog[1].infohash

\* A notification whose second candidate was committed, and the commit failed.
C23_Witness ==
    /\ path = "push" /\ Len(commitLog) = 1 /\ Len(checks) > 1
    /\ outcome = "commit_failed"

(***************************************************************************)
(* C24: the steps of one run are strictly sequential: discovery is called  *)
(* only after the resolver returned an identifier, a candidate is checked  *)
(* only after discovery returned streams, ranked only after its own check  *)
(* returned a non-empty record, and committed only after it was ranked;    *)
(* on the poll path the commit follows the whole loop.                     *)
(***************************************************************************)
C24_StepsInOrder ==
    /\ pc \in {"receive", "resolve"} => lastTorrentio = ""
    /\ lastTorrentio # "" => lastTrakt = "200_id"
    /\ pc \in {"receive", "resolve", "discover"} => (checks = <<>> /\ commitLog = <<>>)
    /\ checks # <<>> => lastTorrentio = "200_streams"
    /\ \A j \in CheckIdx : checks[j].rk # "none" => checks[j].cached
    /\ \A c \in CommitIdx :
          \E j \in CheckIdx :
              checks[j].hash = commitLog[c].infohash /\ checks[j].rk = "accepted"
    /\ (path = "poll" /\ pc = "loop") => commitLog = <<>>
    /\ commitLog # <<>> => pc = "done"

\* A run that went through every step: a candidate that was not available, then
\* one that was checked, ranked and committed.
C24_Witness ==
    /\ pc = "done" /\ outcome = "torrent_added"
    /\ Len(checks) > 1 /\ ~checks[1].cached
    /\ lastTrakt = "200_id" /\ lastTorrentio = "200_streams"

====
